---- MODULE Spec2Model ----
(***************************************************************************)
(* Model of the deepseek2api proxy: the account pool (app/accounts.py),    *)
(* the per-turn upstream workflow (app/main.py, app/deepseek.py) and the   *)
(* stream translator (app/openai_adapter.py).                              *)
(*                                                                         *)
(* Spec          : server life cycle - startup (initialize_tokens) and     *)
(*                 then concurrent turns on one cooperative event loop.    *)
(* SpecTranslate : convert_to_openai_stream applied to bounded event       *)
(*                 sequences.                                              *)
(***************************************************************************)
EXTENDS Naturals, Integers, Sequences, FiniteSets, TLC

\* ---------------------------------------------------------------- bounds
NumAccounts == 2
NumCallers == 3
MaxEvents == 4

Accounts == 1..NumAccounts
Callers == 1..NumCallers

\* Python's None for account / session / caller valued fields
None == 0

\* ---------------------------------------------------------------- tokens
NoToken == [src |-> "none", id |-> 0]
EmptyToken == [src |-> "empty", id |-> 0]
\* the token string of account i, from the configuration or from its login
Token(i) == [src |-> "token", id |-> i]

\* truthiness of a token, as in `if not acc.token` / `if token`
Truthy(t) == t.src \notin {"none", "empty"}

VARIABLES
    phase,          \* "startup" | "ready" | "serving"
    accounts,       \* accounts[i] = token field of config.accounts[i]
    account_queue,  \* items of AccountManager.account_queue, head first
    getters,        \* pending getter futures of the queue, in order
    task,           \* initialize_tokens: state of the i-th gathered task
    results,        \* initialize_tokens: result of the i-th gathered task
    login_resp,     \* what the upstream answered to the i-th login POST
    pc,             \* position of each caller's turn
    account,        \* account held by the caller's managed_account
    session_id,     \* session id held by the caller's managed_chat_session
    calls,          \* per turn: pool operations and upstream calls, in order
    events,         \* per turn: kinds of the events yielded by stream_generator,
                    \* a run of content events recorded once
    pow_response,   \* chat_stream's local: "unset", "None" or "proof"
    arrivals,       \* callers suspended in get_account, by time of request
    wakeups,        \* resolved getters not yet run, in the loop's ready order
    running,        \* caller occupying the event loop thread, or None
    tr_input,       \* translator: the events pulled from deepseek_stream
    tr_out,         \* translator: frames emitted so far
    is_thinking,    \* translator: local flag of convert_to_openai_stream
    tr_pc,          \* translator: "off" | "loop" | "final" | "done"
    cs_pending,     \* chat_stream: bytes received but not yet handed out by
                    \* resp.aiter_bytes()
    buffer,         \* chat_stream: local `buffer`
    cs_lines,       \* chat_stream: the lines split off the buffer so far
    cs_events,      \* chat_stream: the events yielded so far
    cs_is_thinking, \* chat_stream: local `is_thinking`
    cs_pc,          \* chat_stream: "off" | "open" | "done" | "eof" | "failed"
    fr_input,       \* get_full_response: events pulled from stream_generator
    full_content,   \* get_full_response: local `full_content`
    fr_pc,          \* get_full_response: "off" | "loop" | "returned" | "raised"
    response        \* chat_completions: the HTTP response of the request

poolVars == <<account_queue, getters, arrivals, wakeups>>
startVars == <<phase, accounts, task, results, login_resp>>
turnVars == <<pc, account, session_id, calls, events, pow_response, running>>
trVars == <<tr_input, tr_out, is_thinking, tr_pc>>
csVars == <<cs_pending, buffer, cs_lines, cs_events, cs_is_thinking, cs_pc>>
fullVars == <<fr_input, full_content, fr_pc, response>>
vars == <<phase, accounts, account_queue, getters, task, results, login_resp,
          pc, account, session_id, calls, events, pow_response, arrivals,
          wakeups,
          running,
          tr_input, tr_out, is_thinking, tr_pc,
          cs_pending, buffer, cs_lines, cs_events, cs_is_thinking, cs_pc,
          fr_input, full_content, fr_pc, response>>

\* ======================================================= startup (pool)
LoginResponses == {"ok", "ok_empty", "code", "missing", "transport"}

\* AccountManager._login_and_get_token: the token the coroutine returns for
\* the upstream's answer; every failure is caught and becomes None
login_and_get_token(i, resp) ==
    CASE resp = "ok"        -> Token(i)
      [] resp = "ok_empty"  -> EmptyToken
      [] resp = "code"      -> NoToken
      [] resp = "missing"   -> NoToken
      [] resp = "transport" -> NoToken

\* initialize_tokens, line 46: which coroutine is gathered for account i
needs_login(i) == ~Truthy(accounts[i])

\* initialize_tokens, lines 53-56: the accounts enqueued, in list order
RECURSIVE enqueue_results_until_failure(_, _)
enqueue_results_until_failure(res, i) ==
    IF i > NumAccounts THEN <<>>
    ELSE IF Truthy(res[i]) THEN <<i>> \o enqueue_results_until_failure(res, i + 1)
    ELSE <<>>

RECURSIVE enqueue_results(_, _)
enqueue_results(res, i) ==
    IF i > NumAccounts THEN <<>>
    ELSE IF Truthy(res[i]) THEN <<i>> \o enqueue_results(res, i + 1)
    ELSE enqueue_results(res, i + 1)

\* the login coroutine of account i runs up to its POST
LoginPost(i) ==
    /\ phase = "startup"
    /\ task[i] = "new"
    /\ needs_login(i)
    /\ task' = [task EXCEPT ![i] = "posted"]
    /\ UNCHANGED <<phase, accounts, results, login_resp>>
    /\ UNCHANGED <<poolVars, turnVars, trVars, csVars, fullVars>>

\* the upstream answers the login POST of account i
LoginReturn(i) ==
    /\ phase = "startup"
    /\ task[i] = "posted"
    /\ \E resp \in LoginResponses :
        /\ login_resp' = [login_resp EXCEPT ![i] = resp]
        /\ results' = [results EXCEPT ![i] = login_and_get_token(i, resp)]
    /\ task' = [task EXCEPT ![i] = "done"]
    /\ UNCHANGED <<phase, accounts>>
    /\ UNCHANGED <<poolVars, turnVars, trVars, csVars, fullVars>>

\* asyncio.sleep(0, result=acc.token) for an account that carries a token
SleepDone(i) ==
    /\ phase = "startup"
    /\ task[i] = "new"
    /\ ~needs_login(i)
    /\ results' = [results EXCEPT ![i] = accounts[i]]
    /\ task' = [task EXCEPT ![i] = "done"]
    /\ UNCHANGED <<phase, accounts, login_resp>>
    /\ UNCHANGED <<poolVars, turnVars, trVars, csVars, fullVars>>

\* gather has returned: tokens are stored and the survivors enqueued
\* (lines 51-56)
Gather ==
    /\ phase = "startup"
    /\ \A i \in Accounts : task[i] = "done"
    /\ accounts' = [i \in Accounts |->
                      IF Truthy(results[i]) THEN results[i] ELSE accounts[i]]
    /\ account_queue' = enqueue_results(results, 1)
    /\ phase' = "ready"
    /\ UNCHANGED <<task, results, login_resp>>
    /\ UNCHANGED <<getters, arrivals, wakeups, turnVars,
                   trVars, csVars, fullVars>>

\* initialize_tokens returns to startup_event (its locals go out of scope)
\* and the application starts to accept requests
StartupDone ==
    /\ phase = "ready"
    /\ phase' = "serving"
    /\ task' = [i \in Accounts |-> "gone"]
    /\ results' = [i \in Accounts |-> NoToken]
    /\ login_resp' = [i \in Accounts |-> "none"]
    /\ UNCHANGED <<accounts, poolVars, turnVars, trVars, csVars, fullVars>>

\* ====================================================== asyncio.Queue use
get_nowait_item_last(q) == q[Len(q)]
\* Queue.get_nowait: the item handed out and the queue left behind
get_nowait_item(q) == Head(q)
get_nowait_rest_keep(q) == q
get_nowait_rest(q) == Tail(q)

\* Queue.put_nowait: the queue after release_account(acc)
put_nowait_drop(q, acc) == q
put_nowait_twice(q, acc) == Append(Append(q, acc), acc)
put_nowait(q, acc) == Append(q, acc)

\* Queue._wakeup_next: the getter whose future is resolved, and the rest
wakeup_next_who(gs) == IF gs = <<>> THEN None ELSE Head(gs)
wakeup_next_rest(gs) == IF gs = <<>> THEN gs ELSE Tail(gs)
\* Future.set_result schedules the getter's task behind the callbacks that
\* are already ready
call_soon(ws, gs) == IF gs = <<>> THEN ws ELSE Append(ws, Head(gs))

\* Queue.get, a getter that finds the queue empty: its new future is
\* appended to the waiters
add_getter(gs, c) == Append(gs, c)

Remove(seq, c) == SelectSeq(seq, LAMBDA x : x # c)

\* set of callers with an account checked out
Holders == {c \in Callers : account[c] # None}
\* accounts that survived initialization
Live == {i \in Accounts : Truthy(accounts[i])}

\* ============================================================ one turn
Call(op, arg) == [op |-> op, arg |-> arg]

PowResponses == {"challenge", "code", "transport"}
SolveResults == {"answer", "none", "raise"}
CreateResponses == {"ok", "code", "transport"}
StreamReads == {"frame", "sentinel", "eof", "transport"}

\* DeepSeekClient._create_session: the id returned for the upstream's answer
create_session(c, resp) == IF resp = "ok" THEN c ELSE None

\* PoWGenerator.calculate_answer seen from _get_and_solve_pow, lines 130-151:
\* does the coroutine return an encoded proof
pow_solved(solve) == solve = "answer"

\* chat_stream, lines 228-237: a content event is yielded
yield_content(evs) ==
    IF evs # <<>> /\ evs[Len(evs)] = "content" THEN evs
    ELSE Append(evs, "content")

\* chat_stream, lines 179-181: the events yielded when no proof was obtained
events_without_pow == <<>>

\* managed_account, line 76: release_account(acc) ends the task of caller c
\* (its frames and locals are gone); q is the queue before the put and ws
\* the resolved getters still to run
Release(c, acc, q, ws) ==
    /\ account_queue' = put_nowait(q, acc)
    /\ getters' = wakeup_next_rest(getters)
    /\ wakeups' = call_soon(ws, getters)
    /\ pc' = [p \in Callers |->
                IF p = c THEN "idle"
                ELSE IF p = wakeup_next_who(getters) THEN "woken"
                ELSE pc[p]]
    /\ account' = [account EXCEPT ![c] = None]
    /\ session_id' = [session_id EXCEPT ![c] = None]
    /\ calls' = [calls EXCEPT ![c] = <<>>]
    /\ events' = [events EXCEPT ![c] = <<>>]
    /\ pow_response' = [pow_response EXCEPT ![c] = "unset"]

\* managed_chat_session, line 176: the finally block issues the delete POST
StartDelete(c) ==
    /\ pc' = [pc EXCEPT ![c] = "deleting"]
    /\ calls' = [calls EXCEPT ![c] = Append(@, Call("delete", session_id[c]))]
    /\ UNCHANGED <<account, session_id, poolVars>>

\* get_account has an item: managed_account yields it, stream_generator
\* builds the client (which may raise) and enters managed_chat_session up to
\* the create POST
Acquire(c, ws) ==
    LET acc == get_nowait_item(account_queue)
        rest == get_nowait_rest(account_queue)
    IN  \E built \in BOOLEAN :
          IF built
          THEN /\ account_queue' = rest
               /\ account' = [account EXCEPT ![c] = acc]
               /\ pc' = [pc EXCEPT ![c] = "creating"]
               /\ calls' = [calls EXCEPT ![c] =
                              <<Call("acquire", acc), Call("create", None)>>]
               /\ wakeups' = ws
               /\ UNCHANGED <<getters, session_id, events, pow_response>>
          ELSE Release(c, acc, rest, ws)

\* a request arrives: stream_generator runs up to its first suspension
Arrive(c) ==
    /\ phase = "serving"
    /\ pc[c] = "idle"
    /\ IF account_queue = <<>>
       THEN /\ getters' = add_getter(getters, c)
            /\ arrivals' = Append(arrivals, c)
            /\ pc' = [pc EXCEPT ![c] = "waiting"]
            /\ UNCHANGED <<account_queue, wakeups, account, calls, session_id,
                           events, pow_response>>
       ELSE /\ Acquire(c, wakeups)
            /\ UNCHANGED arrivals
    /\ UNCHANGED <<startVars, running, trVars, csVars, fullVars>>

\* a getter whose future was resolved runs again: Queue.get re-tests empty()
Resume(c) ==
    /\ pc[c] = "woken"
    /\ c = Head(wakeups)
    /\ IF account_queue = <<>>
       THEN /\ getters' = add_getter(getters, c)
            /\ wakeups' = Tail(wakeups)
            /\ pc' = [pc EXCEPT ![c] = "waiting"]
            /\ UNCHANGED <<account_queue, account, calls, arrivals, session_id,
                           events, pow_response>>
       ELSE /\ Acquire(c, Tail(wakeups))
            /\ arrivals' = Remove(arrivals, c)
    /\ UNCHANGED <<startVars, running, trVars, csVars, fullVars>>

\* the caller's task is cancelled while suspended in Queue.get and its
\* getter is still pending: the except clause removes the getter
CancelGet(c) ==
    /\ pc[c] = "waiting"
    /\ arrivals' = Remove(arrivals, c)
    /\ getters' = Remove(getters, c)
    /\ pc' = [pc EXCEPT ![c] = "idle"]
    /\ UNCHANGED <<startVars, account_queue, wakeups, account, session_id,
                   calls, events, pow_response, running,
                   trVars, csVars, fullVars>>

\* the caller's task was cancelled after its getter was resolved: when it
\* runs, the except clause passes the wake-up on if the queue has an item
CancelWoken(c) ==
    /\ pc[c] = "woken"
    /\ c = Head(wakeups)
    /\ arrivals' = Remove(arrivals, c)
    /\ IF account_queue # <<>>
       THEN /\ getters' = wakeup_next_rest(getters)
            /\ wakeups' = call_soon(Tail(wakeups), getters)
            /\ pc' = [p \in Callers |->
                        IF p = c THEN "idle"
                        ELSE IF p = wakeup_next_who(getters) THEN "woken"
                        ELSE pc[p]]
       ELSE /\ wakeups' = Tail(wakeups)
            /\ pc' = [pc EXCEPT ![c] = "idle"]
            /\ UNCHANGED getters
    /\ UNCHANGED <<startVars, account_queue, account, session_id, calls,
                   events, pow_response, running, trVars, csVars, fullVars>>

\* the upstream answers the create POST
CreateReturn(c) ==
    /\ pc[c] = "creating"
    /\ \E resp \in CreateResponses :
        LET sid == create_session(c, resp) IN
        /\ session_id' = [session_id EXCEPT ![c] = sid]
        /\ IF sid = None
           THEN /\ events' = [events EXCEPT ![c] = Append(@, "error")]
                /\ pc' = [pc EXCEPT ![c] = "yield_nosession"]
                /\ UNCHANGED calls
           ELSE /\ pc' = [pc EXCEPT ![c] = "pow"]
                /\ calls' = [calls EXCEPT ![c] = Append(@, Call("pow", None))]
                /\ UNCHANGED events
    /\ UNCHANGED <<startVars, poolVars, account, pow_response, running,
                   trVars, csVars, fullVars>>

LeaveNoSession_with_delete(c) ==
    /\ pc[c] = "yield_nosession"
    /\ StartDelete(c)
    /\ UNCHANGED <<startVars, events, pow_response, running,
                   trVars, csVars, fullVars>>

\* the consumer resumes or closes the generator suspended at line 64
LeaveNoSession(c) ==
    /\ pc[c] = "yield_nosession"
    /\ Release(c, account[c], account_queue, wakeups)
    /\ UNCHANGED <<startVars, arrivals, running, trVars, csVars, fullVars>>

\* the task is cancelled while the create POST is in flight
CancelCreate(c) ==
    /\ pc[c] = "creating"
    /\ Release(c, account[c], account_queue, wakeups)
    /\ UNCHANGED <<startVars, arrivals, running, trVars, csVars, fullVars>>

\* the upstream answers the challenge POST; on a challenge the solver starts
\* on the event loop thread
PowReturn(c) ==
    /\ pc[c] = "pow"
    /\ \E resp \in PowResponses :
        IF resp = "challenge"
        THEN /\ pc' = [pc EXCEPT ![c] = "solving"]
             /\ running' = c
             /\ UNCHANGED <<calls, events, pow_response, account, session_id,
                            poolVars>>
        ELSE /\ pow_response' = [pow_response EXCEPT ![c] = "None"]
             /\ events' = [events EXCEPT ![c] = @ \o events_without_pow]
             /\ StartDelete(c)
             /\ UNCHANGED running
    /\ UNCHANGED <<startVars, trVars, csVars, fullVars>>

\* calculate_answer returns; with a proof the streaming POST is issued
PowSolved(c) ==
    /\ pc[c] = "solving"
    /\ running = c
    /\ running' = None
    /\ \E solve \in SolveResults :
        IF pow_solved(solve)
        THEN /\ pow_response' = [pow_response EXCEPT ![c] = "proof"]
             /\ pc' = [pc EXCEPT ![c] = "streaming"]
             /\ calls' = [calls EXCEPT ![c] =
                            Append(@, Call("completion", session_id[c]))]
             /\ UNCHANGED <<events, account, session_id, poolVars>>
        ELSE /\ pow_response' = [pow_response EXCEPT ![c] = "None"]
             /\ events' = [events EXCEPT ![c] = @ \o events_without_pow]
             /\ StartDelete(c)
    /\ UNCHANGED <<startVars, trVars, csVars, fullVars>>

\* the streaming response delivers bytes, ends, or fails
StreamRead(c) ==
    /\ pc[c] = "streaming"
    /\ \E rd \in StreamReads :
        CASE rd = "frame" ->
                /\ events' = [events EXCEPT ![c] = yield_content(@)]
                /\ pc' = [pc EXCEPT ![c] = "yield_chunk"]
                /\ UNCHANGED <<calls, pow_response, account, session_id, poolVars>>
          [] rd = "transport" ->
                /\ events' = [events EXCEPT ![c] = Append(@, "error")]
                /\ pc' = [pc EXCEPT ![c] = "yield_error"]
                /\ UNCHANGED <<calls, pow_response, account, session_id, poolVars>>
          [] rd \in {"sentinel", "eof"} ->
                /\ StartDelete(c)
                /\ UNCHANGED <<events, pow_response>>
    /\ UNCHANGED <<startVars, running, trVars, csVars, fullVars>>

\* the consumer asks for the next event after a content event
NextChunk(c) ==
    /\ pc[c] = "yield_chunk"
    /\ pc' = [pc EXCEPT ![c] = "streaming"]
    /\ UNCHANGED <<startVars, poolVars, account, session_id, calls, events,
                   pow_response, running, trVars, csVars, fullVars>>

AfterError_retry(c) ==
    /\ pc[c] = "yield_error"
    /\ pc' = [pc EXCEPT ![c] = "streaming"]
    /\ calls' = [calls EXCEPT ![c] =
                   Append(@, Call("completion", session_id[c]))]
    /\ UNCHANGED <<startVars, poolVars, account, session_id, events,
                   pow_response, running, trVars, csVars, fullVars>>

\* the consumer asks for the next event after the error event: chat_stream
\* ends and the session is left
AfterError(c) ==
    /\ pc[c] = "yield_error"
    /\ StartDelete(c)
    /\ UNCHANGED <<startVars, events, pow_response, running,
                   trVars, csVars, fullVars>>

CloseAtYield_release_first(c) ==
    /\ pc[c] \in {"yield_chunk", "yield_error"}
    /\ Release(c, account[c], account_queue, wakeups)
    /\ UNCHANGED <<startVars, arrivals, running, trVars, csVars, fullVars>>

\* the consumer closes stream_generator while it is suspended at line 69
CloseAtYield(c) ==
    /\ pc[c] \in {"yield_chunk", "yield_error"}
    /\ StartDelete(c)
    /\ UNCHANGED <<startVars, events, pow_response, running,
                   trVars, csVars, fullVars>>

CancelInSession_no_cleanup(c) ==
    /\ pc[c] \in {"pow", "streaming"}
    /\ Release(c, account[c], account_queue, wakeups)
    /\ UNCHANGED <<startVars, arrivals, running, trVars, csVars, fullVars>>

\* the task is cancelled while the challenge POST or a stream read is pending
CancelInSession(c) ==
    /\ pc[c] \in {"pow", "streaming"}
    /\ StartDelete(c)
    /\ UNCHANGED <<startVars, events, pow_response, running,
                   trVars, csVars, fullVars>>

\* the delete POST returns or fails, or the task is cancelled while it is in
\* flight; managed_account's finally then releases the account
DeleteReturn(c) ==
    /\ pc[c] = "deleting"
    /\ Release(c, account[c], account_queue, wakeups)
    /\ UNCHANGED <<startVars, arrivals, running, trVars, csVars, fullVars>>

\* ================================================= stream translator
\* a Python value that is None or a string (a sequence of characters)
PyNone == [none |-> TRUE, text |-> <<>>]
Str(t) == [none |-> FALSE, text |-> t]
\* `not v` for such a value
Falsy(v) == v.none \/ v.text = <<>>

Event(type, content) == [type |-> type, content |-> content]

\* the fixed lead-in marker "[Thinking] "
LeadIn == <<"[Thinking] ">>

\* events offered to the translator: those chat_stream and stream_generator
\* build (start events carry no content), and dicts with other shapes
EventAlphabet ==
    { Event("thinking_start", PyNone),
      Event("thinking_start", Str(<<"a", "b">>)),
      Event("answer_start", PyNone),
      Event("answer_start", Str(<<"a", "b">>)),
      Event("thinking", Str(<<"a", "b">>)),
      Event("thinking", Str(<<>>)),
      Event("content", Str(<<"c", "d">>)),
      Event("content", Str(<<"a", "b">>)),
      Event("content", Str(<<>>)),
      Event("content", PyNone),
      Event("error", Str(<<"e">>)),
      Event("None", Str(<<"a", "b">>)) }

\* an output frame: a "data: {json}" line or the literal "data: [DONE]" line
Frame(line, content, reasoning, finish) ==
    [line |-> line, content |-> content, reasoning_content |-> reasoning,
     finish_reason |-> finish]

openai_chunk_stop(content, reasoning) == Frame("json", content, reasoning, "stop")
\* lines 30-37: the chunk built around a delta
openai_chunk(content, reasoning) == Frame("json", content, reasoning, "None")
\* lines 40-47: the final chunk, with an empty delta
final_chunk == Frame("json", PyNone, PyNone, "stop")
\* line 48
done_frame == Frame("[DONE]", PyNone, PyNone, "None")

\* line 14: events skipped by the loop
skipped(ev) == ev.type = "None" \/ Falsy(ev.content)

delta_content_keep(ev) ==
    CASE ev.type = "answer_start" -> ev.content
      [] ev.type = "content"      -> ev.content
      [] OTHER                    -> PyNone

\* lines 17-28: the delta's content and reasoning_content for an event
delta_content(ev) ==
    CASE ev.type = "answer_start" -> Str(<<>>)
      [] ev.type = "content"      -> ev.content
      [] OTHER                    -> PyNone

delta_reasoning(ev) ==
    CASE ev.type = "thinking_start" -> Str(LeadIn)
      [] ev.type = "thinking"       -> ev.content
      [] OTHER                      -> PyNone

\* lines 10-37: the frames yielded for one event
convert_event(ev) ==
    IF skipped(ev) THEN <<>>
    ELSE <<openai_chunk(delta_content(ev), delta_reasoning(ev))>>

\* lines 19-24: the local flag after an event
thinking_after(flag, ev) ==
    IF skipped(ev) THEN flag
    ELSE CASE ev.type = "thinking_start" -> TRUE
           [] ev.type = "answer_start"   -> FALSE
           [] OTHER                      -> flag

\* one iteration of `async for chunk in deepseek_stream`
TrPull ==
    /\ tr_pc = "loop"
    /\ Len(tr_input) < MaxEvents
    /\ \E ev \in EventAlphabet :
        /\ tr_input' = Append(tr_input, ev)
        /\ tr_out' = tr_out \o convert_event(ev)
        /\ is_thinking' = thinking_after(is_thinking, ev)
    /\ UNCHANGED <<tr_pc, startVars, poolVars, turnVars,
                 csVars, fullVars>>

\* deepseek_stream is exhausted: the final chunk is yielded
TrFinal ==
    /\ tr_pc = "loop"
    /\ tr_out' = Append(tr_out, final_chunk)
    /\ tr_pc' = "final"
    /\ UNCHANGED <<tr_input, is_thinking, startVars, poolVars, turnVars,
                 csVars, fullVars>>

\* the consumer resumes the generator: the end marker is yielded
TrDone ==
    /\ tr_pc = "final"
    /\ tr_out' = Append(tr_out, done_frame)
    /\ tr_pc' = "done"
    /\ UNCHANGED <<tr_input, is_thinking, startVars, poolVars, turnVars,
                 csVars, fullVars>>

\* ================================================== get_full_response
\* main.py lines 75-79: one event pulled in the loop of get_full_response; a
\* content event whose value is no string makes `+=` raise TypeError
full_response_step(ev) ==
    CASE ev.type = "content" /\ ev.content.none -> "TypeError"
      [] ev.type = "content" /\ ~ev.content.none -> "add"
      [] ev.type = "error"                      -> "HTTPException"
      [] OTHER                                   -> "skip"

\* what the framework answers when the handler raises
error_response(kind, ev) ==
    IF kind = "HTTPException"
    THEN [status |-> 500, content |-> PyNone, detail |-> ev.content]
    ELSE [status |-> 500, content |-> PyNone,
          detail |-> Str(<<"Internal Server Error">>)]

\* main.py lines 101-107: the body built around the aggregated text
completion_response(text) ==
    [status |-> 200, content |-> text, detail |-> PyNone]

\* one iteration of `async for chunk in stream_generator(request_data)`
FrPull ==
    /\ fr_pc = "loop"
    /\ Len(fr_input) < MaxEvents
    /\ \E ev \in EventAlphabet :
        LET kind == full_response_step(ev) IN
        /\ fr_input' = Append(fr_input, ev)
        /\ CASE kind = "add" ->
                  /\ full_content' = Str(full_content.text \o ev.content.text)
                  /\ UNCHANGED <<fr_pc, response>>
             [] kind = "skip" ->
                  UNCHANGED <<full_content, fr_pc, response>>
             [] OTHER ->
                  /\ fr_pc' = "raised"
                  /\ response' = error_response(kind, ev)
                  /\ UNCHANGED full_content
    /\ UNCHANGED <<startVars, poolVars, turnVars, trVars, csVars>>

\* stream_generator is exhausted: get_full_response returns and
\* chat_completions answers with the completion object
FrReturn ==
    /\ fr_pc = "loop"
    /\ fr_pc' = "returned"
    /\ response' = completion_response(full_content)
    /\ UNCHANGED <<fr_input, full_content>>
    /\ UNCHANGED <<startVars, poolVars, turnVars, trVars, csVars>>

\* ===================================================== chat_stream frames
\* bytes of the streaming response, in units: a piece of text (possibly
\* empty) that is or is not directly followed by the delimiter "\n\n";
\* MaxUnits bounds the number of units of one response
MaxUnits == 3

Piece(prefix, payload) == [prefix |-> prefix, payload |-> payload]
Blank == Piece("", "")
Pieces ==
    { Piece("data: ", "thinking"),  \* {"p":"response/thinking_content","v":"t"}
      Piece("data: ", "content"),   \* {"p":"response/content","v":"c"}
      Piece("data: ", "pathless"),  \* {"v":"x"}
      Piece("data: ", "[DONE]"),
      Piece("data:", "[DONE]"),     \* no space after the colon
      Blank }
Unit(text, sep) == [text |-> text, sep |-> sep]
Units == {Unit(t, b) : t \in Pieces, b \in BOOLEAN} \ {Unit(Blank, FALSE)}

\* line 209: '\n\n' in buffer
has_delimiter(buf) == \E k \in 1..Len(buf) : buf[k].sep
\* line 210: buffer.split('\n\n', 1)
split_at(buf) == CHOOSE k \in 1..Len(buf) :
                    buf[k].sep /\ \A j \in 1..(k - 1) : ~buf[j].sep
split_line(buf) == [i \in 1..split_at(buf) |-> buf[i].text]
\* the characters of a line: empty pieces add nothing
Text(line) == SelectSeq(line, LAMBDA t : t # Blank)
split_rest(buf) == SubSeq(buf, split_at(buf) + 1, Len(buf))

\* line 211: line.startswith("data:")
startswith_data(line) ==
    Text(line) # <<>> /\ Text(line)[1].prefix \in {"data: ", "data:"}
\* line 214: line[6:].strip() - six characters are dropped whatever they are
data_str(line) ==
    IF Len(Text(line)) # 1 THEN "joined"
    ELSE IF Text(line)[1].prefix = "data: " THEN Text(line)[1].payload
    ELSE "cut"
is_sentinel_never(d) == FALSE
\* line 215
is_sentinel(d) == d = "[DONE]"

\* lines 219-221: json.loads and the two lookups; text that is no JSON
\* document raises JSONDecodeError
json_loads(d) ==
    CASE d = "thinking" -> [ok |-> TRUE, p |-> "response/thinking_content",
                            v |-> Str(<<"t">>)]
      [] d = "content"  -> [ok |-> TRUE, p |-> "response/content",
                            v |-> Str(<<"c">>)]
      [] d = "pathless" -> [ok |-> TRUE, p |-> "absent", v |-> Str(<<"x">>)]
      [] OTHER          -> [ok |-> FALSE, p |-> "absent", v |-> PyNone]

\* lines 223-240: the events yielded for a parsed frame
frame_events(thinking, chunk) ==
    CASE ~chunk.ok -> <<>>
      [] chunk.ok /\ chunk.p = "response/thinking_content" ->
            (IF ~thinking THEN <<Event("thinking_start", PyNone)>> ELSE <<>>)
            \o <<Event("thinking", chunk.v)>>
      [] chunk.ok /\ chunk.p = "response/content" ->
            (IF thinking THEN <<Event("answer_start", PyNone)>> ELSE <<>>)
            \o <<Event("content", chunk.v)>>
      [] OTHER ->
            IF chunk.v.none THEN <<>>
            ELSE IF thinking THEN <<Event("thinking", chunk.v)>>
            ELSE <<Event("content", chunk.v)>>

\* lines 224-230: the local flag after a parsed frame
flag_after(thinking, chunk) ==
    CASE ~chunk.ok -> thinking
      [] chunk.ok /\ chunk.p = "response/thinking_content" -> TRUE
      [] chunk.ok /\ chunk.p = "response/content" -> FALSE
      [] OTHER -> thinking

on_exception_rollback(evs) == <<Event("error", Str(<<"e">>))>>
\* lines 241-243: the event yielded from the except clause
on_exception(evs) == Append(evs, Event("error", Str(<<"e">>)))

\* number of units in the lines split off so far
RECURSIVE UnitsIn(_)
UnitsIn(lines) ==
    IF lines = <<>> THEN 0 ELSE Len(Head(lines)) + UnitsIn(Tail(lines))

\* the upstream sends more bytes of the response
CsArrive ==
    /\ cs_pc = "open"
    /\ UnitsIn(cs_lines) + Len(buffer) + Len(cs_pending) < MaxUnits
    /\ \E u \in Units : cs_pending' = Append(cs_pending, u)
    /\ UNCHANGED <<buffer, cs_lines, cs_events, cs_is_thinking, cs_pc>>
    /\ UNCHANGED <<startVars, poolVars, turnVars, trVars, fullVars>>

\* lines 207-208: aiter_bytes hands out what was received
CsRead ==
    /\ cs_pc = "open"
    /\ ~has_delimiter(buffer)
    /\ cs_pending # <<>>
    /\ buffer' = buffer \o cs_pending
    /\ cs_pending' = <<>>
    /\ UNCHANGED <<cs_lines, cs_events, cs_is_thinking, cs_pc>>
    /\ UNCHANGED <<startVars, poolVars, turnVars, trVars, fullVars>>

\* lines 209-240: one iteration of the while loop
CsLine ==
    /\ cs_pc = "open"
    /\ has_delimiter(buffer)
    /\ LET line == split_line(buffer)
           chunk == json_loads(data_str(line))
       IN /\ buffer' = split_rest(buffer)
          /\ cs_lines' = Append(cs_lines, line)
          /\ IF ~startswith_data(line)
             THEN UNCHANGED <<cs_events, cs_is_thinking, cs_pc>>
             ELSE IF is_sentinel(data_str(line))
             THEN /\ cs_pc' = "done"
                  /\ UNCHANGED <<cs_events, cs_is_thinking>>
             ELSE /\ cs_events' = cs_events \o frame_events(cs_is_thinking, chunk)
                  /\ cs_is_thinking' = flag_after(cs_is_thinking, chunk)
                  /\ UNCHANGED cs_pc
    /\ UNCHANGED cs_pending
    /\ UNCHANGED <<startVars, poolVars, turnVars, trVars, fullVars>>

\* aiter_bytes is exhausted: the response ended without a sentinel
CsEof ==
    /\ cs_pc = "open"
    /\ ~has_delimiter(buffer)
    /\ cs_pending = <<>>
    /\ cs_pc' = "eof"
    /\ UNCHANGED <<cs_pending, buffer, cs_lines, cs_events, cs_is_thinking>>
    /\ UNCHANGED <<startVars, poolVars, turnVars, trVars, fullVars>>

\* the request, raise_for_status or a read raises: lines 241-243
CsFail ==
    /\ cs_pc = "open"
    /\ ~has_delimiter(buffer)
    /\ cs_events' = on_exception(cs_events)
    /\ cs_pc' = "failed"
    /\ UNCHANGED <<cs_pending, buffer, cs_lines, cs_is_thinking>>
    /\ UNCHANGED <<startVars, poolVars, turnVars, trVars, fullVars>>

\* =========================================================== Spec
TypeToken == {NoToken, EmptyToken} \cup {Token(i) : i \in Accounts}

Init ==
    /\ phase = "startup"
    /\ accounts \in {f \in [Accounts -> TypeToken] :
                        \A i \in Accounts : f[i] \in {NoToken, Token(i)}}
    /\ account_queue = <<>>
    /\ getters = <<>>
    /\ arrivals = <<>>
    /\ wakeups = <<>>
    /\ task = [i \in Accounts |-> "new"]
    /\ results = [i \in Accounts |-> NoToken]
    /\ login_resp = [i \in Accounts |-> "none"]
    /\ pc = [c \in Callers |-> "idle"]
    /\ account = [c \in Callers |-> None]
    /\ session_id = [c \in Callers |-> None]
    /\ calls = [c \in Callers |-> <<>>]
    /\ events = [c \in Callers |-> <<>>]
    /\ pow_response = [c \in Callers |-> "unset"]
    /\ running = None
    /\ tr_input = <<>>
    /\ tr_out = <<>>
    /\ is_thinking = FALSE
    /\ tr_pc = "off"
    /\ cs_pending = <<>>
    /\ buffer = <<>>
    /\ cs_lines = <<>>
    /\ cs_events = <<>>
    /\ cs_is_thinking = FALSE
    /\ cs_pc = "off"
    /\ fr_input = <<>>
    /\ full_content = Str(<<>>)
    /\ fr_pc = "off"
    /\ response = [status |-> 0, content |-> PyNone, detail |-> PyNone]

\* steps of the event loop: while a task runs synchronous code nothing else
\* is scheduled
LoopStep ==
    /\ running = None
    /\ \/ \E i \in Accounts : LoginPost(i) \/ LoginReturn(i) \/ SleepDone(i)
       \/ Gather
       \/ StartupDone
       \/ \E c \in Callers :
            \/ Arrive(c) \/ Resume(c) \/ CancelGet(c) \/ CancelWoken(c)
            \/ CreateReturn(c) \/ LeaveNoSession(c) \/ CancelCreate(c)
            \/ PowReturn(c) \/ StreamRead(c) \/ NextChunk(c) \/ AfterError(c)
            \/ CloseAtYield(c) \/ CancelInSession(c) \/ DeleteReturn(c)

Next == LoopStep \/ \E c \in Callers : PowSolved(c)

Spec == Init /\ [][Next]_vars

\* =========================================================== SpecFair
\* the event loop runs every callback that is ready: startup tasks, resolved
\* getters and the solver make their step
LoopFairness ==
    /\ \A i \in Accounts :
        /\ WF_vars(LoopStep /\ LoginPost(i))
        /\ WF_vars(LoopStep /\ LoginReturn(i))
        /\ WF_vars(LoopStep /\ SleepDone(i))
    /\ WF_vars(LoopStep /\ Gather)
    /\ WF_vars(LoopStep /\ StartupDone)
    /\ \A c \in Callers :
        /\ WF_vars(LoopStep /\ Resume(c))
        /\ WF_vars(PowSolved(c))

\* every upstream call is answered, every yielded event is consumed and every
\* streaming response ends: a turn that holds an account finishes
TurnFairness ==
    \A c \in Callers :
        /\ WF_vars(LoopStep /\ CreateReturn(c))
        /\ WF_vars(LoopStep /\ LeaveNoSession(c))
        /\ WF_vars(LoopStep /\ PowReturn(c))
        /\ WF_vars(LoopStep /\ NextChunk(c))
        /\ WF_vars(LoopStep /\ AfterError(c))
        /\ WF_vars(LoopStep /\ DeleteReturn(c))
        /\ SF_vars(LoopStep /\ StreamRead(c) /\ pc'[c] # "yield_chunk")

SpecFair == Init /\ [][Next]_vars /\ LoopFairness /\ TurnFairness

\* =========================================================== SpecTranslate
InitTranslate ==
    /\ phase = "startup"
    /\ accounts = [i \in Accounts |-> NoToken]
    /\ account_queue = <<>>
    /\ getters = <<>>
    /\ arrivals = <<>>
    /\ wakeups = <<>>
    /\ task = [i \in Accounts |-> "new"]
    /\ results = [i \in Accounts |-> NoToken]
    /\ login_resp = [i \in Accounts |-> "none"]
    /\ pc = [c \in Callers |-> "idle"]
    /\ account = [c \in Callers |-> None]
    /\ session_id = [c \in Callers |-> None]
    /\ calls = [c \in Callers |-> <<>>]
    /\ events = [c \in Callers |-> <<>>]
    /\ pow_response = [c \in Callers |-> "unset"]
    /\ running = None
    /\ tr_input = <<>>
    /\ tr_out = <<>>
    /\ is_thinking = FALSE
    /\ tr_pc = "loop"
    /\ cs_pending = <<>>
    /\ buffer = <<>>
    /\ cs_lines = <<>>
    /\ cs_events = <<>>
    /\ cs_is_thinking = FALSE
    /\ cs_pc = "off"
    /\ fr_input = <<>>
    /\ full_content = Str(<<>>)
    /\ fr_pc = "off"
    /\ response = [status |-> 0, content |-> PyNone, detail |-> PyNone]

NextTranslate == TrPull \/ TrFinal \/ TrDone

SpecTranslate == InitTranslate /\ [][NextTranslate]_vars

\* =========================================================== SpecStream
\* the server part of the state, for specifications of a single component
ServerOff ==
    /\ phase = "startup"
    /\ accounts = [i \in Accounts |-> NoToken]
    /\ account_queue = <<>>
    /\ getters = <<>>
    /\ arrivals = <<>>
    /\ wakeups = <<>>
    /\ task = [i \in Accounts |-> "new"]
    /\ results = [i \in Accounts |-> NoToken]
    /\ login_resp = [i \in Accounts |-> "none"]
    /\ pc = [c \in Callers |-> "idle"]
    /\ account = [c \in Callers |-> None]
    /\ session_id = [c \in Callers |-> None]
    /\ calls = [c \in Callers |-> <<>>]
    /\ events = [c \in Callers |-> <<>>]
    /\ pow_response = [c \in Callers |-> "unset"]
    /\ running = None
    /\ tr_input = <<>>
    /\ tr_out = <<>>
    /\ is_thinking = FALSE
    /\ tr_pc = "off"

InitStream ==
    /\ ServerOff
    /\ cs_pending = <<>>
    /\ buffer = <<>>
    /\ cs_lines = <<>>
    /\ cs_events = <<>>
    /\ cs_is_thinking = FALSE
    /\ cs_pc = "open"
    /\ fr_input = <<>>
    /\ full_content = Str(<<>>)
    /\ fr_pc = "off"
    /\ response = [status |-> 0, content |-> PyNone, detail |-> PyNone]

NextStream == CsArrive \/ CsRead \/ CsLine \/ CsEof \/ CsFail

SpecStream == InitStream /\ [][NextStream]_vars

\* =========================================================== SpecFull
InitFull ==
    /\ ServerOff
    /\ cs_pending = <<>>
    /\ buffer = <<>>
    /\ cs_lines = <<>>
    /\ cs_events = <<>>
    /\ cs_is_thinking = FALSE
    /\ cs_pc = "off"
    /\ fr_input = <<>>
    /\ full_content = Str(<<>>)
    /\ fr_pc = "loop"
    /\ response = [status |-> 0, content |-> PyNone, detail |-> PyNone]

NextFull == FrPull \/ FrReturn

SpecFull == InitFull /\ [][NextFull]_vars

\* ================================================================ claims
Range(seq) == {seq[k] : k \in 1..Len(seq)}
Count(seq, x) == Cardinality({k \in 1..Len(seq) : seq[k] = x})
Before(a, b, seq) ==
    \E i, j \in 1..Len(seq) : i < j /\ seq[i] = a /\ seq[j] = b
TurnEnds(c) == pc[c] # "idle" /\ pc'[c] = "idle"

\* C1 - mutual exclusion of checkout: no identity is held by two callers at
\* the same time, and an identity that is held is not in the queue where
\* get_account could hand it to another caller
C1_MutualExclusion ==
    /\ \A c1, c2 \in Callers :
        (c1 # c2 /\ account[c1] # None) => account[c1] # account[c2]
    /\ \A c \in Callers :
        account[c] # None => account[c] \notin Range(account_queue)

\* two callers hold identities at once while a third is suspended
C1_Witness ==
    /\ Cardinality(Holders) = 2
    /\ \E c \in Callers : pc[c] = "waiting"

\* C2 - session cleanup: a turn issues at most one delete, only for its own
\* session id, and a turn in which _create_session returned an id does not
\* end (normally, on failure or on cancellation) without exactly one delete
\* for that id
C2_DeleteCalls(c) ==
    {k \in 1..Len(calls[c]) : calls[c][k].op = "delete"}

C2_SessionCleanup ==
    /\ [](\A c \in Callers :
            /\ Cardinality(C2_DeleteCalls(c)) <= 1
            /\ \A k \in C2_DeleteCalls(c) :
                 session_id[c] # None /\ calls[c][k].arg = session_id[c])
    /\ [][\A c \in Callers :
            (TurnEnds(c) /\ session_id[c] # None) =>
                Count(calls[c], Call("delete", session_id[c])) = 1]_vars

\* a turn cancelled while its challenge POST was in flight (no proof, no
\* failure) is in its delete call
C2_Witness ==
    \E c \in Callers :
        /\ pc[c] = "deleting"
        /\ pow_response[c] = "unset"
        /\ Count(calls[c], Call("delete", session_id[c])) = 1

\* C3 - guaranteed release: a caller holds an identity exactly between its
\* get_account and the end of its turn; the step in which it stops holding
\* puts exactly that identity back, once; and no step of the serving phase
\* changes the number or the set of identities in the queue or checked out
C3_Holding ==
    {"creating", "yield_nosession", "pow", "solving", "streaming",
     "yield_chunk", "yield_error", "deleting"}

C3_GuaranteedRelease ==
    /\ [](\A c \in Callers : account[c] # None <=> pc[c] \in C3_Holding)
    /\ [][/\ \A c \in Callers :
               (account[c] # None /\ account'[c] # account[c]) =>
                   /\ account'[c] = None
                   /\ TurnEnds(c)
                   /\ account_queue' = Append(account_queue, account[c])
          /\ phase = "serving" =>
               /\ Len(account_queue') + Cardinality(Holders') =
                    Len(account_queue) + Cardinality(Holders)
               /\ Range(account_queue') \cup {account'[c] : c \in Holders'} =
                    Range(account_queue) \cup {account[c] : c \in Holders}
         ]_vars

\* all turns are over and a released identity is back behind the other one
C3_Witness ==
    /\ phase = "serving"
    /\ Holders = {}
    /\ \A c \in Callers : pc[c] = "idle"
    /\ Len(account_queue) = 2
    /\ account_queue[1] > account_queue[2]

\* C4 - FIFO fairness: a caller that had to wait is handed an identity only
\* when no caller that called get_account earlier is still suspended
C4_FIFO ==
    [][\A a, b \in Callers :
         (Before(a, b, arrivals) /\ account[b] = None) => account'[b] = None
      ]_vars

\* C5 - PoW failure: when no proof was obtained the turn has issued no
\* streaming completion call and has yielded exactly one event, an error
C5_PowFailure ==
    \A c \in Callers :
        (pc[c] = "deleting" /\ pow_response[c] = "None") =>
            /\ \A k \in 1..Len(calls[c]) : calls[c][k].op # "completion"
            /\ events[c] = <<"error">>

\* C10 - concurrency bound: never more holders than surviving identities; a
\* caller that requests or is suspended while every identity is checked out
\* stays suspended without an identity (unless its own request is cancelled)
C10_Suspended == {"waiting", "woken"}

C10_ConcurrencyBound ==
    /\ [](Cardinality(Holders) <= Cardinality(Live))
    /\ [][\A c \in Callers :
            (phase = "serving" /\ account_queue = <<>>
               /\ pc[c] \in C10_Suspended \cup {"idle"}
               /\ pc'[c] # pc[c]) =>
                 /\ account'[c] = None
                 /\ \/ pc'[c] \in C10_Suspended
                    \/ CancelGet(c) \/ CancelWoken(c)
         ]_vars

\* two identities, both checked out, and a third caller suspended
C10_Witness ==
    /\ Cardinality(Live) = 2
    /\ Cardinality(Holders) = 2
    /\ account_queue = <<>>
    /\ \E c \in Callers : pc[c] \in C10_Suspended /\ account[c] = None

\* C6 - translator mapping: the sequence thinking_start, thinking "ab",
\* answer_start, content "cd" is translated to four delta chunks (reasoning
\* lead-in, reasoning "ab", content "", content "cd"), the stop chunk and the
\* end marker
C6_Input ==
    << Event("thinking_start", PyNone), Event("thinking", Str(<<"a", "b">>)),
       Event("answer_start", PyNone), Event("content", Str(<<"c", "d">>)) >>

C6_Expected ==
    << Frame("json", PyNone, Str(LeadIn), "None"),
       Frame("json", PyNone, Str(<<"a", "b">>), "None"),
       Frame("json", Str(<<>>), PyNone, "None"),
       Frame("json", Str(<<"c", "d">>), PyNone, "None"),
       Frame("json", PyNone, PyNone, "stop"),
       Frame("[DONE]", PyNone, PyNone, "None") >>

C6_Mapping ==
    (tr_pc = "done" /\ tr_input = C6_Input) => tr_out = C6_Expected

\* C7 - termination framing: the completed output ends with one stop chunk
\* directly followed by one end marker, and no stop chunk or end marker
\* occurs before them
C7_IsStop(f) == f.line = "json" /\ f.finish_reason = "stop"
C7_IsDone(f) == f.line = "[DONE]"

C7_Framing ==
    LET n == Len(tr_out) IN
    /\ tr_pc = "loop" =>
         \A k \in 1..n : ~C7_IsStop(tr_out[k]) /\ ~C7_IsDone(tr_out[k])
    /\ tr_pc = "done" =>
         /\ n >= 2
         /\ C7_IsStop(tr_out[n - 1]) /\ ~C7_IsDone(tr_out[n - 1])
         /\ C7_IsDone(tr_out[n]) /\ ~C7_IsStop(tr_out[n])
         /\ \A k \in 1..(n - 2) :
              ~C7_IsStop(tr_out[k]) /\ ~C7_IsDone(tr_out[k])

\* a completed translation of a sequence that ends in an error event
C7_Witness ==
    /\ tr_pc = "done"
    /\ Len(tr_input) >= 2
    /\ tr_input[Len(tr_input)].type = "error"
    /\ Len(tr_out) >= 3

\* C8 - content preservation: the content fields of the emitted chunks,
\* concatenated in order, are the texts of the content events consumed,
\* concatenated in order
RECURSIVE C8_OutContent(_)
C8_OutContent(frames) ==
    IF frames = <<>> THEN <<>>
    ELSE (IF Head(frames).content.none THEN <<>>
          ELSE Head(frames).content.text) \o C8_OutContent(Tail(frames))

RECURSIVE C8_InText(_)
C8_InText(evs) ==
    IF evs = <<>> THEN <<>>
    ELSE (IF Head(evs).type = "content" /\ ~Head(evs).content.none
          THEN Head(evs).content.text ELSE <<>>) \o C8_InText(Tail(evs))

C8_ContentPreserved ==
    tr_pc # "off" => C8_OutContent(tr_out) = C8_InText(tr_input)

\* two different answer texts around other events went through
C8_Witness ==
    /\ tr_pc = "done"
    /\ C8_OutContent(tr_out) = <<"c", "d", "a", "b">>
    /\ \E k \in 1..Len(tr_input) : tr_input[k].type = "answer_start"
    /\ \E k \in 1..Len(tr_input) : tr_input[k].type = "thinking"

\* C9 - login failure isolation: a login is issued only for an identity
\* without a token; when gather has returned, the queue holds, in list order
\* and once each, exactly the identities that carried a token or whose login
\* succeeded, each with its own token, and each failed login has removed one
\* identity only
C9_Failed == {i \in Accounts : login_resp[i] \notin {"none", "ok"}}
C9_Survivors == {i \in Accounts : login_resp[i] \in {"none", "ok"}}

C9_LoginIsolation ==
    /\ phase = "startup" =>
         \A i \in Accounts :
            Truthy(accounts[i]) =>
                /\ task[i] # "posted"
                /\ login_resp[i] = "none"
                /\ task[i] = "done" => results[i] = accounts[i]
    /\ phase = "ready" =>
        /\ Range(account_queue) = C9_Survivors
        /\ \A j, k \in 1..Len(account_queue) :
             j < k => account_queue[j] < account_queue[k]
        /\ \A i \in Accounts :
             /\ i \in C9_Survivors => accounts[i] = Token(i)
             /\ i \in C9_Failed => ~Truthy(accounts[i])
        /\ Len(account_queue) = NumAccounts - Cardinality(C9_Failed)
        /\ Cardinality(C9_Failed) = 1 => Len(account_queue) = NumAccounts - 1

\* the first login failed, a later one succeeded, and the pool is ready
C9_Witness ==
    /\ phase = "ready"
    /\ Cardinality(C9_Failed) = 1
    /\ 1 \in C9_Failed
    /\ \E i \in Accounts : login_resp[i] = "ok" /\ i \in Range(account_queue)

\* C11 - session-create failure: a turn whose _create_session returned None
\* has yielded exactly one event, an error, has issued no delete, no
\* challenge fetch and no completion call, and its next step ends the turn and
\* puts its identity back into the queue
C11_CreateFailure ==
    /\ [](\A c \in Callers :
            pc[c] = "yield_nosession" =>
                /\ session_id[c] = None
                /\ events[c] = <<"error">>
                /\ calls[c] = <<Call("acquire", account[c]),
                                Call("create", None)>>)
    /\ [][\A c \in Callers :
            /\ (pc[c] = "creating" /\ pc'[c] # "creating"
                   /\ session_id'[c] = None) =>
                  pc'[c] \in {"yield_nosession", "idle"}
            /\ (pc[c] = "yield_nosession" /\ pc'[c] # pc[c]) =>
                  /\ TurnEnds(c)
                  /\ account'[c] = None
                  /\ account_queue' = Append(account_queue, account[c])
         ]_vars

\* a turn is suspended at the error event of a failed create while another
\* caller waits for an identity
C11_Witness ==
    \E c, d \in Callers :
        /\ pc[c] = "yield_nosession"
        /\ events[c] = <<"error">>
        /\ pc[d] = "waiting"

\* C12 - non-streaming failure: when the events pulled by get_full_response
\* contain content followed by an error event, the caller is answered with an
\* ordinary completion (status 200) carrying the content accumulated before
\* the failure
C12_NonStreamingFailure ==
    (/\ fr_pc \in {"returned", "raised"}
     /\ \E k \in 1..Len(fr_input) :
          /\ fr_input[k].type = "error"
          /\ \E j \in 1..(k - 1) :
               fr_input[j].type = "content" /\ ~Falsy(fr_input[j].content))
    => /\ response.status = 200
       /\ response.content = full_content
       /\ response.detail = PyNone

\* C13 - PoW solve does not stall other turns: while one turn computes
\* calculate_answer, a turn that is streaming can take its next step
C13_SolveDoesNotStall ==
    \A c, d \in Callers :
        (pc[c] = "solving" /\ pc[d] = "streaming") =>
            ENABLED (Next /\ pc'[d] # pc[d])

\* C14 - event ordering: the events yielded by chat_stream contain at most
\* one thinking_start and at most one answer_start, every thinking event
\* precedes every content event, and no thinking_start or thinking event
\* follows an answer_start
C14_At(type) == {k \in 1..Len(cs_events) : cs_events[k].type = type}

C14_EventOrdering ==
    /\ Cardinality(C14_At("thinking_start")) <= 1
    /\ Cardinality(C14_At("answer_start")) <= 1
    /\ \A i \in C14_At("thinking"), j \in C14_At("content") : i < j
    /\ \A i \in C14_At("answer_start"),
          j \in C14_At("thinking_start") \cup C14_At("thinking") : j < i

\* C15 - stream failure: an error event is yielded only by a failure of the
\* streaming call; the failing step appends exactly one error event to the
\* events yielded before it, which stay as they were, and nothing is yielded
\* after it
C15_StreamFailure ==
    /\ [](cs_pc = "failed" =>
            /\ cs_events # <<>>
            /\ cs_events[Len(cs_events)].type = "error"
            /\ Cardinality(C14_At("error")) = 1)
    /\ [](cs_pc \in {"open", "done", "eof"} => C14_At("error") = {})
    /\ [][(cs_pc = "open" /\ cs_pc' = "failed") =>
             /\ Len(cs_events') = Len(cs_events) + 1
             /\ SubSeq(cs_events', 1, Len(cs_events)) = cs_events]_vars
    /\ [][cs_pc = "failed" => cs_events' = cs_events]_vars

\* the streaming call failed after thinking and answer events were yielded
\* and with undelimited bytes still in the buffer
C15_Witness ==
    /\ cs_pc = "failed"
    /\ Len(cs_events) >= 4
    /\ buffer # <<>>

\* C16 - no empty frames: before the final chunk every emitted chunk has its
\* content or its reasoning field set, and chunks are emitted only for events
\* of a recognized type with non-empty content
C16_Recognized == {"thinking_start", "thinking", "answer_start", "content"}

C16_NoEmptyFrames ==
    tr_pc = "loop" =>
        /\ \A k \in 1..Len(tr_out) :
            ~(tr_out[k].content.none /\ tr_out[k].reasoning_content.none)
        /\ Len(tr_out) =
             Cardinality({k \in 1..Len(tr_input) :
                            /\ tr_input[k].type \in C16_Recognized
                            /\ ~Falsy(tr_input[k].content)})

\* C17 - sentinel termination: a line whose payload is [DONE] is the last line
\* chat_stream splits off and ends it; the step that meets it yields nothing,
\* no error event is yielded, lines are taken from the front of the buffer in
\* order, and after the end nothing more is split off or yielded whatever the
\* buffer still holds
C17_IsSentinel(line) == Text(line) = <<Piece("data: ", "[DONE]")>>

C17_SentinelTermination ==
    /\ [](\A k \in 1..Len(cs_lines) :
            C17_IsSentinel(cs_lines[k]) =>
                k = Len(cs_lines) /\ cs_pc = "done")
    /\ [](cs_pc = "done" =>
            /\ cs_lines # <<>>
            /\ C17_IsSentinel(cs_lines[Len(cs_lines)])
            /\ C14_At("error") = {})
    /\ [][cs_lines' # cs_lines =>
             /\ has_delimiter(buffer)
             /\ cs_lines' = Append(cs_lines, split_line(buffer))
             /\ buffer' = split_rest(buffer)
             /\ C17_IsSentinel(split_line(buffer)) => cs_events' = cs_events
         ]_vars
    /\ [][cs_pc = "done" => UNCHANGED <<cs_events, cs_lines, buffer, cs_pc>>
         ]_vars

\* the sentinel was met after a frame that yielded events, and a complete
\* frame that came in the same read is still in the buffer
C17_Witness ==
    /\ cs_pc = "done"
    /\ Len(cs_lines) >= 2
    /\ cs_events # <<>>
    /\ has_delimiter(buffer)

\* C18 - protocol order without retries: the upstream calls of a turn are a
\* prefix of create, challenge fetch, completion, delete (the delete may
\* follow the challenge fetch directly), each at most once and nothing after
\* the delete; the challenge is fetched only with a session id, the
\* completion call is made only with a proof obtained in this turn, and calls
\* are only ever added until the turn ends
C18_Ops(c) ==
    LET up == SelectSeq(calls[c], LAMBDA x : x.op # "acquire")
    IN  [k \in 1..Len(up) |-> up[k].op]

C18_Orders ==
    { <<>>, <<"create">>, <<"create", "pow">>,
      <<"create", "pow", "delete">>,
      <<"create", "pow", "completion">>,
      <<"create", "pow", "completion", "delete">> }

C18_ProtocolOrder ==
    /\ [](\A c \in Callers :
            /\ C18_Ops(c) \in C18_Orders
            /\ "pow" \in Range(C18_Ops(c)) => session_id[c] # None
            /\ "completion" \in Range(C18_Ops(c)) => pow_response[c] = "proof")
    /\ [][\A c \in Callers :
            calls'[c] # calls[c] =>
                \/ TurnEnds(c) /\ calls'[c] = <<>>
                \/ /\ Len(calls'[c]) > Len(calls[c])
                   /\ SubSeq(calls'[c], 1, Len(calls[c])) = calls[c]
         ]_vars

\* one turn is deleting its session after a completion call while another
\* deletes its session after a failed proof
C18_Witness ==
    \E c, d \in Callers :
        /\ C18_Ops(c) = <<"create", "pow", "completion", "delete">>
        /\ C18_Ops(d) = <<"create", "pow", "delete">>

\* C19 - pool conservation: once initialize_tokens has enqueued the
\* survivors, every surviving identity is either once in the queue or checked
\* out by one caller, no other identity is in the queue or checked out, and
\* with no identity checked out the queue holds all survivors
C19_PoolConservation ==
    phase \in {"ready", "serving"} =>
        /\ phase = "ready" => Live = {i \in Accounts : Truthy(results[i])}
        /\ \A i \in Accounts :
            Count(account_queue, i)
              + Cardinality({c \in Callers : account[c] = i})
              = IF i \in Live THEN 1 ELSE 0
        /\ Holders = {} =>
            /\ Range(account_queue) = Live
            /\ Len(account_queue) = Cardinality(Live)

\* identity 2 is checked out while identity 1, taken and put back before, is
\* in the queue and a turn has ended
C19_Witness ==
    /\ phase = "serving"
    /\ Live = Accounts
    /\ account_queue = <<1>>
    /\ \E c \in Callers : account[c] = 2 /\ pc[c] = "streaming"

\* C20 - cleanup order: the delete call is issued while the turn still holds
\* its identity, and a turn that has a session id puts its identity back only
\* from its delete call, which is then the last call it made
C20_CleanupOrder ==
    /\ [](\A c \in Callers :
            pc[c] = "deleting" =>
                /\ account[c] # None
                /\ account[c] \notin Range(account_queue))
    /\ [][\A c \in Callers :
            /\ (pc[c] # "deleting" /\ pc'[c] = "deleting") =>
                  /\ account'[c] = account[c]
                  /\ account_queue' = account_queue
            /\ (account[c] # None /\ account'[c] = None
                  /\ session_id[c] # None) =>
                  /\ pc[c] = "deleting"
                  /\ calls[c] # <<>>
                  /\ calls[c][Len(calls[c])] = Call("delete", session_id[c])
         ]_vars

\* a delete call is in flight while every identity is checked out and a
\* caller waits for one
C20_Witness ==
    \E c, d \in Callers :
        /\ pc[c] = "deleting"
        /\ session_id[c] # None
        /\ account_queue = <<>>
        /\ pc[d] = "waiting"

\* C21 - no starvation: with a surviving identity, a caller suspended in
\* get_account eventually holds an identity or has left get_account without
\* one (its request was cancelled or its client could not be built)
C21_NoStarvation ==
    \A c \in Callers :
        (pc[c] \in {"waiting", "woken"} /\ Live # {})
            ~> (account[c] # None \/ pc[c] = "idle")

====
